---- MODULE Spec2Model ----
(***************************************************************************)
(* Model of vllm/worker/worker.py: the batch assembler                     *)
(* (Worker._prepare_inputs) and the per-step orchestration of cache        *)
(* operations and the model call (Worker.execute_model).                   *)
(***************************************************************************)
EXTENDS Integers, Sequences, FiniteSets, TLC

\* ------------------------------------------------------------------ bounds
MaxSeqId == 2
MaxSeen == 1
MaxInflight == 5
MaxHold == 1
MaxBlocks == 3
NumBlocks == 3
MaxGroups == 2
MaxSwap == 2
MaxNumSeqs == 4
MaxNumBatchedTokens == 10

\* self.block_size (cache_config.block_size), the same for every step
block_size == 2
\* self.sliding_window: None in every deployment modelled here
None == "None"
sliding_window == None

\* ------------------------------------------------------------------ helpers
\* an Optional value: absent, or holding x
Absent == <<>>
Some(x) == <<x>>
IsNone(o) == o = <<>>
Get(o) == o[1]

Min(a, b) == IF a < b THEN a ELSE b
Max(a, b) == IF a > b THEN a ELSE b

\* Python's x[a:b] for 0 <= a, 0 <= b (indices are 0-based, the end is clamped)
Slice(x, a, b) == SubSeq(x, a + 1, Min(b, Len(x)))

\* Python's [v] * n
Repeat(v, n) == [i \in 1..n |-> v]

\* Python's range(n) as a list
Range(n) == [i \in 1..n |-> i - 1]

\* Python's (-n) % m, which is never negative
NegMod(n, m) == (m - (n % m)) % m

MultipleOf == 8

\* (mutant) pads by len % multiple_of instead of (-len) % multiple_of
_pad_to_alignment_mod(x, multiple_of) == x \o Repeat(0, Len(x) % multiple_of)

_pad_to_alignment(x, multiple_of) == x \o Repeat(0, NegMod(Len(x), multiple_of))

\* (mutant) appends max_len zeros whatever the length of x
_pad_to_max_fixed(x, max_len) == x \o Repeat(0, max_len)

_pad_to_max(x, max_len) == x \o Repeat(0, max_len - Len(x))

\* SequenceData as the worker reads it
get_len(sdata) == Len(sdata.tokens)

\* ------------------------------------------------------------------ slots
\* (mutant) an index past the end reads the last block instead of faulting
ListGetClamped(block_table, index) ==
    IF block_table = <<>>
    THEN [err |-> None, value |-> 0]
    ELSE [err |-> None, value |-> block_table[Min(index, Len(block_table) - 1) + 1]]

\* Python's block_table[index] for index >= 0: IndexError past the end
ListGet(block_table, index) ==
    IF index >= Len(block_table)
    THEN [err |-> "IndexError"]
    ELSE [err |-> None, value |-> block_table[index + 1]]

\* (mutant) the block number is not scaled by the block size
SlotAtUnscaled(block_table, position) ==
    LET block_number == ListGet(block_table, position \div block_size)
    IN  IF block_number.err # None
        THEN [err |-> block_number.err]
        ELSE [err |-> None, slot |-> block_number.value + (position % block_size)]

\* block_number = block_table[position // block_size]
\* slot = block_number * block_size + position % block_size
SlotAt(block_table, position) ==
    LET block_number == ListGet(block_table, position \div block_size)
        block_offset == position % block_size
    IN  IF block_number.err # None
        THEN [err |-> block_number.err]
        ELSE [err |-> None, slot |-> block_number.value * block_size + block_offset]

\* the slots of a list of positions, in order, up to the first fault
RECURSIVE SlotsOf(_, _)
SlotsOf(block_table, positions) ==
    IF positions = <<>> THEN [err |-> None, slots |-> <<>>]
    ELSE LET first == SlotAt(block_table, Head(positions))
         IN  IF first.err # None
             THEN [err |-> first.err, slots |-> <<>>]
             ELSE LET rest == SlotsOf(block_table, Tail(positions))
                  IN  [err |-> rest.err, slots |-> <<first.slot>> \o rest.slots]

\* ------------------------------------------------------------------ _prepare_inputs
\* the lists _prepare_inputs builds, before any group is visited
EmptyAcc ==
    [err |-> None,
     seq_groups |-> <<>>,
     input_tokens |-> <<>>,
     input_positions |-> <<>>,
     slot_mapping |-> <<>>,
     is_generating_new_token |-> <<>>,
     prompt_lens |-> <<>>,
     max_context_len |-> 0,
     max_num_blocks_per_seq |-> 0,
     context_lens |-> <<>>,
     generation_block_tables |-> <<>>,
     running_query_lens |-> <<>>]

\* (mutant) a prompt group without block tables gets no placeholder slots
PrefillGroupNoDummySlots(acc, g) ==
    IF acc.err # None \/ ~g.is_prompt \/ g.only_swap THEN acc
    ELSE
      LET seq_ids == g.seq_ids
          seq_id == seq_ids[1]
          sdata == g.seq_data[seq_id]
          prompt_len == sdata.running_inflight_tokens
          prompt_tokens == Slice(sdata.tokens, 0, prompt_len)
          acc1 == [acc EXCEPT
                     !.seq_groups = Append(@, seq_ids),
                     !.prompt_lens = Append(@, prompt_len),
                     !.is_generating_new_token = Append(@, seq_id),
                     !.input_tokens = @ \o prompt_tokens,
                     !.input_positions = @ \o Range(Len(prompt_tokens))]
      IN  IF IsNone(g.block_tables)
          THEN acc1
          ELSE LET r == SlotsOf(Get(g.block_tables)[seq_id], Range(prompt_len))
               IN  IF r.err # None
                   THEN [acc1 EXCEPT !.err = r.err]
                   ELSE [acc1 EXCEPT !.slot_mapping = @ \o r.slots]

\* one iteration of the "Add prompt tokens" loop
PrefillGroup(acc, g) ==
    IF acc.err # None \/ ~g.is_prompt \/ g.only_swap THEN acc
    ELSE
      LET seq_ids == g.seq_ids
          seq_id == seq_ids[1]
          sdata == g.seq_data[seq_id]
          prompt_len == sdata.running_inflight_tokens
          prompt_tokens == Slice(sdata.tokens, 0, prompt_len)
          acc1 == [acc EXCEPT
                     !.seq_groups = Append(@, seq_ids),
                     !.prompt_lens = Append(@, prompt_len),
                     !.is_generating_new_token = Append(@, seq_id),
                     !.input_tokens = @ \o prompt_tokens,
                     !.input_positions = @ \o Range(Len(prompt_tokens))]
      IN  IF IsNone(g.block_tables)
          THEN [acc1 EXCEPT !.slot_mapping = @ \o Repeat(0, prompt_len)]
          ELSE LET r == SlotsOf(Get(g.block_tables)[seq_id], Range(prompt_len))
               IN  IF r.err # None
                   THEN [acc1 EXCEPT !.err = r.err]
                   ELSE [acc1 EXCEPT !.slot_mapping = @ \o r.slots]

RECURSIVE PrefillPass(_, _)
PrefillPass(acc, list) ==
    IF list = <<>> THEN acc
    ELSE PrefillPass(PrefillGroup(acc, Head(list)), Tail(list))

\* one iteration of "for seq_id in seq_ids" of the "Add generation tokens" loop
DecodeSeq(acc, g, seq_id) ==
    IF acc.err # None THEN acc
    ELSE
      LET sdata == g.seq_data[seq_id]
          qs_to_forward == sdata.running_inflight_tokens
          start_idx == get_len(sdata) - sdata.inflight_length
          last_token_ctx_len == start_idx + qs_to_forward
          hists0 == [i \in 1..qs_to_forward |->
                        (i - 1) + last_token_ctx_len - qs_to_forward + 1]
          positions == [i \in 1..qs_to_forward |-> hists0[i] - 1]
          hists == IF sliding_window # None
                   THEN [i \in 1..qs_to_forward |-> Min(hists0[i], sliding_window)]
                   ELSE hists0
          acc1 == [acc EXCEPT
                     !.input_tokens =
                         @ \o Slice(sdata.tokens, start_idx, start_idx + qs_to_forward),
                     !.running_query_lens = Append(@, qs_to_forward),
                     !.is_generating_new_token = Append(@, seq_id),
                     !.context_lens = Append(@, last_token_ctx_len),
                     !.input_positions = @ \o positions]
      IN  IF IsNone(g.block_tables) THEN [acc1 EXCEPT !.err = "TypeError"]
          ELSE IF qs_to_forward = 0 THEN [acc1 EXCEPT !.err = "IndexError"]
          ELSE
            LET block_table == Get(g.block_tables)[seq_id]
                r == SlotsOf(block_table, positions)
                acc2 == [acc1 EXCEPT
                           !.max_context_len = Max(@, hists[qs_to_forward]),
                           !.max_num_blocks_per_seq = Max(@, Len(block_table))]
            IN  IF r.err # None THEN [acc2 EXCEPT !.err = r.err]
                ELSE IF sliding_window # None
                     THEN [acc2 EXCEPT !.err = "AssertionError: sliding window"]
                     ELSE [acc2 EXCEPT
                             !.slot_mapping = @ \o r.slots,
                             !.generation_block_tables = Append(@, block_table)]

RECURSIVE DecodeSeqs(_, _, _)
DecodeSeqs(acc, g, seq_ids) ==
    IF seq_ids = <<>> THEN acc
    ELSE DecodeSeqs(DecodeSeq(acc, g, Head(seq_ids)), g, Tail(seq_ids))

\* one iteration of the "Add generation tokens" loop
DecodeGroup(acc, g) ==
    IF acc.err # None \/ g.is_prompt \/ g.only_swap THEN acc
    ELSE DecodeSeqs([acc EXCEPT !.seq_groups = Append(@, g.seq_ids)], g, g.seq_ids)

RECURSIVE DecodePass(_, _)
DecodePass(acc, list) ==
    IF list = <<>> THEN acc
    ELSE DecodePass(DecodeGroup(acc, Head(list)), Tail(list))

SeqToSet(s) == {s[i] : i \in 1..Len(s)}

\* (mutant) the duplicate check also visits the swap-only groups
DuplicateSeqIdAnyGroup(list) ==
    \E i, j \in 1..Len(list) :
        /\ i < j
        /\ SeqToSet(list[i].seq_ids) \cap SeqToSet(list[j].seq_ids) # {}

\* the "k not in seq_data" assertion fails for some group of the list
DuplicateSeqId(list) ==
    \E i, j \in 1..Len(list) :
        /\ i < j
        /\ ~list[i].only_swap
        /\ ~list[j].only_swap
        /\ SeqToSet(list[i].seq_ids) \cap SeqToSet(list[j].seq_ids) # {}

Raised(e) == [kind |-> "raise", err |-> e]

NoBatch == [kind |-> "empty"]

NotCalled == [kind |-> "none"]

\* Worker._prepare_inputs: a batch, the empty batch (None, None, None), or a raise
_prepare_inputs(seq_group_metadata_list) ==
    IF seq_group_metadata_list = <<>> THEN NoBatch
    ELSE
      LET acc == DecodePass(PrefillPass(EmptyAcc, seq_group_metadata_list),
                            seq_group_metadata_list)
      IN  IF acc.err # None THEN Raised(acc.err)
          ELSE IF acc.input_tokens = <<>> THEN NoBatch
          ELSE IF DuplicateSeqId(seq_group_metadata_list)
               THEN Raised("AssertionError: already in seq_data")
          ELSE IF Len(acc.is_generating_new_token) # Len(acc.seq_groups)
               THEN Raised("AssertionError: assume n = 1 for now")
          ELSE [kind |-> "batch",
                input_tokens |-> _pad_to_alignment(acc.input_tokens, MultipleOf),
                input_positions |-> _pad_to_alignment(acc.input_positions, MultipleOf),
                seq_groups |-> acc.seq_groups,
                prompt_lens |-> acc.prompt_lens,
                slot_mapping |-> acc.slot_mapping,
                context_lens |-> acc.context_lens,
                max_context_len |-> acc.max_context_len,
                block_tables |->
                    [i \in 1..Len(acc.generation_block_tables) |->
                        _pad_to_max(acc.generation_block_tables[i],
                                    acc.max_num_blocks_per_seq)],
                running_query_lens |-> acc.running_query_lens,
                is_generating_new_token |-> acc.is_generating_new_token]

\* ------------------------------------------------------------------ step inputs
SeqIds == 1..MaxSeqId

\* token ids that tell the sequence and the index apart (never the filler 0)
TokenIds(s, n) == [i \in 1..n |-> s * 10 + (i - 1)]

\* a SequenceData with `seen` tokens already in the cache, `running` tokens in
\* flight this step and `hold` further tokens in flight but not forwarded yet
MkSData(s, seen, running, hold) ==
    [tokens |-> TokenIds(s, seen + running + hold),
     inflight_length |-> running + hold,
     running_inflight_tokens |-> running]

\* the block table of sequence s with n allocated blocks
TableOf(s, n) == [j \in 1..n |-> (s + j) % NumBlocks]

MkGroup(is_prompt, only_swap, seq_ids, seq_data, block_tables) ==
    [is_prompt |-> is_prompt,
     only_swap |-> only_swap,
     seq_ids |-> seq_ids,
     seq_data |-> seq_data,
     block_tables |-> block_tables]

\* A prompt-phase sequence has nothing in the cache yet (worker.py:246-247: the
\* first token of the prompt is the first token of the sequence).
SeenOf(is_prompt) == IF is_prompt THEN {0} ELSE 0..MaxSeen

\* groups of one sequence that take part in the compute
SingleGroups ==
    { MkGroup(p, FALSE, <<s>>, (s :> MkSData(s, seen, r, h)),
              IF n < 0 THEN Absent ELSE Some(s :> TableOf(s, n))) :
        <<p, s, seen, r, h, n>> \in
          { x \in BOOLEAN \X SeqIds \X (0..MaxSeen) \X (0..MaxInflight)
                  \X (0..MaxHold) \X (-1..MaxBlocks) :
              /\ x[3] \in SeenOf(x[1])
              /\ (x[6] < 0 => x[1] /\ x[5] = 0) } }

\* groups of two sequences (ids 1 and 2, in the order of the seq_data dict)
PairGroups ==
    { MkGroup(p, FALSE, <<1, 2>>,
              (1 :> MkSData(1, IF p THEN 0 ELSE MaxSeen, r1, 0)
               @@ 2 :> MkSData(2, 0, r2, 0)),
              Some(1 :> TableOf(1, n1) @@ 2 :> TableOf(2, n2))) :
        <<p, r1, r2, n1, n2>> \in
          BOOLEAN \X {1, MaxInflight} \X {1, MaxInflight}
                  \X {1, MaxBlocks} \X {0, MaxBlocks} }

\* groups that only swap this step
SwapOnlyGroups ==
    { MkGroup(p, TRUE, <<s>>, (s :> MkSData(s, 0, r, 0)), Some(s :> TableOf(s, n))) :
        <<p, s, r, n>> \in BOOLEAN \X SeqIds \X {1, MaxInflight} \X {0, MaxBlocks} }

Groups == SingleGroups \cup PairGroups \cup SwapOnlyGroups

ListsOver(G) == UNION { [1..n -> G] : n \in 0..MaxGroups }

\* ------------------------------------------------------------------ state
VARIABLES
    scheduler_config,         \* max_num_seqs and max_num_batched_tokens of the deployment
    pc,                       \* where the worker is in the step
    seq_group_metadata_list,  \* the step's admitted requests
    blocks_to_swap_in,        \* the step's CacheOpSet
    blocks_to_swap_out,
    blocks_to_copy,
    overlap_blocks_swap_in,   \* execute_model's locals
    overlap_blocks_swap_out,
    issued_cache_op,
    cache_events,
    input_metadata,           \* what _prepare_inputs returned
    calls,                    \* what the worker called on the cache engine and the model
    result                    \* what the step returned or raised

vars == <<scheduler_config, pc, seq_group_metadata_list, blocks_to_swap_in, blocks_to_swap_out,
          blocks_to_copy, overlap_blocks_swap_in, overlap_blocks_swap_out,
          issued_cache_op, cache_events, input_metadata, calls, result>>

\* ------------------------------------------------------------------ _prepare_inputs alone
\* the scheduler configuration the worker was constructed with
SchedulerConfig(max_num_seqs, max_num_batched_tokens) ==
    [max_num_seqs |-> max_num_seqs, max_num_batched_tokens |-> max_num_batched_tokens]

InitPrepare ==
    /\ scheduler_config = SchedulerConfig(MaxNumSeqs, MaxNumBatchedTokens)
    /\ pc = "prepare_inputs"
    /\ seq_group_metadata_list \in ListsOver(Groups)
    /\ blocks_to_swap_in = <<>>
    /\ blocks_to_swap_out = <<>>
    /\ blocks_to_copy = <<>>
    /\ overlap_blocks_swap_in = <<>>
    /\ overlap_blocks_swap_out = <<>>
    /\ issued_cache_op = FALSE
    /\ cache_events = None
    /\ input_metadata = NotCalled
    /\ calls = <<>>
    /\ result = NotCalled

PrepareInputs ==
    /\ pc = "prepare_inputs"
    /\ input_metadata' = _prepare_inputs(seq_group_metadata_list)
    /\ pc' = "prepared"
    /\ UNCHANGED <<scheduler_config, seq_group_metadata_list, blocks_to_swap_in,
                   blocks_to_swap_out,
                   blocks_to_copy, overlap_blocks_swap_in, overlap_blocks_swap_out,
                   issued_cache_op, cache_events, calls, result>>

NextPrepare == PrepareInputs

SpecPrepare == InitPrepare /\ [][NextPrepare]_vars

\* ------------------------------------------------------------------ execute_model
BlockIds == 0..(NumBlocks - 1)

\* Dict[int, int]: source block -> destination block, at most MaxSwap entries;
\* the two pools number their blocks alike, block k moves to block k + 1
SwapMaps ==
    { [k \in K |-> (k + 1) % NumBlocks] :
        K \in { S \in SUBSET BlockIds : Cardinality(S) <= MaxSwap } }

\* Dict[int, List[int]]: source block -> destination blocks
CopyMaps == {<<>>} \cup { (b :> <<(b + 1) % NumBlocks>>) : b \in BlockIds }

\* the admitted requests of the steps, each of one sequence: a prompt or a
\* decode with block_size + 1 tokens in flight and blocks enough, a prompt with
\* one block too few, a prompt or a decode with no token in flight, and a
\* group that only swaps
StepGroups ==
    { MkGroup(p, FALSE, <<1>>, (1 :> MkSData(1, 0, r, 0)),
              Some(1 :> TableOf(1, MaxBlocks))) :
        <<p, r>> \in BOOLEAN \X {0, block_size + 1} }
    \cup
    { MkGroup(TRUE, FALSE, <<1>>, (1 :> MkSData(1, 0, block_size + 1, 0)),
              Some(1 :> TableOf(1, 1))),
      MkGroup(FALSE, TRUE, <<1>>, (1 :> MkSData(1, 0, 1, 0)),
              Some(1 :> TableOf(1, 1))) }

\* a call recorded on the cache engine or the model
Call(op, swap_in, swap_out, events) ==
    [op |-> op, blocks_to_swap_in |-> swap_in, blocks_to_swap_out |-> swap_out,
     cache_events |-> events]

Init ==
    /\ scheduler_config = SchedulerConfig(MaxNumSeqs, MaxNumBatchedTokens)
    /\ pc = "idle"
    /\ seq_group_metadata_list = <<>>
    /\ blocks_to_swap_in = <<>>
    /\ blocks_to_swap_out = <<>>
    /\ blocks_to_copy = <<>>
    /\ overlap_blocks_swap_in = <<>>
    /\ overlap_blocks_swap_out = <<>>
    /\ issued_cache_op = FALSE
    /\ cache_events = None
    /\ input_metadata = NotCalled
    /\ calls = <<>>
    /\ result = NotCalled

\* the engine calls execute_model with the scheduler's decisions for the step
ExecuteModelEnter ==
    /\ pc = "idle"
    /\ seq_group_metadata_list' \in ListsOver(StepGroups)
    /\ blocks_to_swap_in' \in SwapMaps
    /\ blocks_to_swap_out' \in SwapMaps
    /\ blocks_to_copy' \in CopyMaps
    /\ issued_cache_op' = FALSE
    /\ overlap_blocks_swap_in' = blocks_to_swap_in'
    /\ overlap_blocks_swap_out' = blocks_to_swap_out'
    /\ cache_events' = None
    /\ input_metadata' = NotCalled
    /\ calls' = <<>>
    /\ result' = NotCalled
    /\ pc' = "cache_ops"
    /\ UNCHANGED scheduler_config

\* (mutant) the copy request goes unnoticed
CopyRequestedNever(copy) == FALSE

\* "if blocks_to_copy:"
CopyRequested(copy) == copy # <<>>

\* (mutant) the events are not picked up after the operations were issued
EventsStale(issued, events) == events

\* "if issued_cache_op: cache_events = self.cache_events", else as given
EventsIfIssued(issued, events) == IF issued THEN "events" ELSE events

\* the copy request is refused before anything else happens
RejectCopy ==
    /\ pc = "cache_ops"
    /\ CopyRequested(blocks_to_copy)
    /\ result' = Raised("ValueError: copy not supported yet")
    /\ pc' = "raised"
    /\ UNCHANGED <<scheduler_config, seq_group_metadata_list, blocks_to_swap_in,
                   blocks_to_swap_out,
                   blocks_to_copy, overlap_blocks_swap_in, overlap_blocks_swap_out,
                   issued_cache_op, cache_events, input_metadata, calls>>

\* no cache operation is issued up front: the blocking path is commented out
NoCacheOpIssued ==
    /\ pc = "cache_ops"
    /\ ~CopyRequested(blocks_to_copy)
    /\ cache_events' = EventsIfIssued(issued_cache_op, None)
    /\ pc' = "prepare"
    /\ UNCHANGED <<scheduler_config, seq_group_metadata_list, blocks_to_swap_in,
                   blocks_to_swap_out,
                   blocks_to_copy, overlap_blocks_swap_in, overlap_blocks_swap_out,
                   issued_cache_op, input_metadata, calls, result>>

\* "Prepare input tensors": a raise of _prepare_inputs ends the step
PrepareStep ==
    /\ pc = "prepare"
    /\ input_metadata' = _prepare_inputs(seq_group_metadata_list)
    /\ IF input_metadata'.kind = "raise"
       THEN result' = input_metadata' /\ pc' = "raised"
       ELSE /\ result' = result
            /\ pc' = IF input_metadata'.kind = "empty" THEN "no_input_swap_out"
                     ELSE "execute"
    /\ UNCHANGED <<scheduler_config, seq_group_metadata_list, blocks_to_swap_in,
                   blocks_to_swap_out,
                   blocks_to_copy, overlap_blocks_swap_in, overlap_blocks_swap_out,
                   issued_cache_op, cache_events, calls>>

\* no input: "if blocks_to_swap_out: self.cache_engine.swap_out(...)"
NoInputSwapOut ==
    /\ pc = "no_input_swap_out"
    /\ IF blocks_to_swap_out # <<>>
       THEN /\ calls' = Append(calls, Call("swap_out", <<>>, blocks_to_swap_out, None))
            /\ issued_cache_op' = TRUE
       ELSE UNCHANGED <<calls, issued_cache_op>>
    /\ pc' = "no_input_swap_in"
    /\ UNCHANGED <<scheduler_config, seq_group_metadata_list, blocks_to_swap_in,
                   blocks_to_swap_out,
                   blocks_to_copy, overlap_blocks_swap_in, overlap_blocks_swap_out,
                   cache_events, input_metadata, result>>

\* no input: "if blocks_to_swap_in: self.cache_engine.swap_in(...)"
NoInputSwapIn ==
    /\ pc = "no_input_swap_in"
    /\ IF blocks_to_swap_in # <<>>
       THEN /\ calls' = Append(calls, Call("swap_in", blocks_to_swap_in, <<>>, None))
            /\ issued_cache_op' = TRUE
       ELSE UNCHANGED <<calls, issued_cache_op>>
    /\ pc' = "no_input_wait"
    /\ UNCHANGED <<scheduler_config, seq_group_metadata_list, blocks_to_swap_in,
                   blocks_to_swap_out,
                   blocks_to_copy, overlap_blocks_swap_in, overlap_blocks_swap_out,
                   cache_events, input_metadata, result>>

\* no input: wait on every cache event if any operation was issued
NoInputWait ==
    /\ pc = "no_input_wait"
    /\ cache_events' = EventsIfIssued(issued_cache_op, cache_events)
    /\ calls' = IF cache_events' # None
                THEN Append(calls, Call("wait", <<>>, <<>>, cache_events'))
                ELSE calls
    /\ pc' = "no_input_return"
    /\ UNCHANGED <<scheduler_config, seq_group_metadata_list, blocks_to_swap_in,
                   blocks_to_swap_out,
                   blocks_to_copy, overlap_blocks_swap_in, overlap_blocks_swap_out,
                   issued_cache_op, input_metadata, result>>

\* no input: "return {}"
NoInputReturn ==
    /\ pc = "no_input_return"
    /\ result' = [kind |-> "return", value |-> "{}"]
    /\ pc' = "returned"
    /\ UNCHANGED <<scheduler_config, seq_group_metadata_list, blocks_to_swap_in,
                   blocks_to_swap_out,
                   blocks_to_copy, overlap_blocks_swap_in, overlap_blocks_swap_out,
                   issued_cache_op, cache_events, input_metadata, calls>>

\* (mutant) the model is handed no swap sets, as if the swaps were already done
ExecuteModelNoOverlap ==
    /\ pc = "execute"
    /\ calls' = Append(calls, Call("model", <<>>, <<>>, cache_events))
    /\ result' = [kind |-> "return", value |-> "output"]
    /\ pc' = "returned"
    /\ UNCHANGED <<scheduler_config, seq_group_metadata_list, blocks_to_swap_in,
                   blocks_to_swap_out,
                   blocks_to_copy, overlap_blocks_swap_in, overlap_blocks_swap_out,
                   issued_cache_op, cache_events, input_metadata>>

\* "Execute the model": the swap sets go to the model as the overlapped sets
ExecuteModel ==
    /\ pc = "execute"
    /\ calls' = Append(calls, Call("model", overlap_blocks_swap_in,
                                   overlap_blocks_swap_out, cache_events))
    /\ result' = [kind |-> "return", value |-> "output"]
    /\ pc' = "returned"
    /\ UNCHANGED <<scheduler_config, seq_group_metadata_list, blocks_to_swap_in,
                   blocks_to_swap_out,
                   blocks_to_copy, overlap_blocks_swap_in, overlap_blocks_swap_out,
                   issued_cache_op, cache_events, input_metadata>>

\* the step is over: its arguments and locals are dropped before the next one
StepEnd ==
    /\ pc \in {"returned", "raised"}
    /\ pc' = "idle"
    /\ seq_group_metadata_list' = <<>>
    /\ blocks_to_swap_in' = <<>>
    /\ blocks_to_swap_out' = <<>>
    /\ blocks_to_copy' = <<>>
    /\ overlap_blocks_swap_in' = <<>>
    /\ overlap_blocks_swap_out' = <<>>
    /\ issued_cache_op' = FALSE
    /\ cache_events' = None
    /\ input_metadata' = NotCalled
    /\ calls' = <<>>
    /\ result' = NotCalled
    /\ UNCHANGED scheduler_config

Next ==
    \/ ExecuteModelEnter
    \/ RejectCopy
    \/ NoCacheOpIssued
    \/ PrepareStep
    \/ NoInputSwapOut
    \/ NoInputSwapIn
    \/ NoInputWait
    \/ NoInputReturn
    \/ ExecuteModel
    \/ StepEnd

Spec == Init /\ [][Next]_vars

\* ------------------------------------------------------------------ profile_num_available_blocks
\* (mutant) the remainder goes to one sequence too many
ProfileSeqLenInclusive(group_id, max_num_batched_tokens, max_num_seqs) ==
    (max_num_batched_tokens \div max_num_seqs)
    + (IF group_id <= max_num_batched_tokens % max_num_seqs THEN 1 ELSE 0)

\* seq_len = max_num_batched_tokens // max_num_seqs
\*           + (group_id < max_num_batched_tokens % max_num_seqs)
ProfileSeqLen(group_id, max_num_batched_tokens, max_num_seqs) ==
    (max_num_batched_tokens \div max_num_seqs)
    + (IF group_id < max_num_batched_tokens % max_num_seqs THEN 1 ELSE 0)

\* SequenceData([0] * seq_len) with running_inflight_tokens = inflight_length;
\* a fresh sequence has its whole prompt in flight
ProfileSData(seq_len) ==
    [tokens |-> Repeat(0, seq_len),
     inflight_length |-> seq_len,
     running_inflight_tokens |-> seq_len]

\* the synthetic prompt group of one loop iteration: no block tables yet
ProfileGroup(group_id, seq_len) ==
    MkGroup(TRUE, FALSE, <<group_id>>, (group_id :> ProfileSData(seq_len)), Absent)

InitProfile ==
    /\ scheduler_config \in
         { SchedulerConfig(n, t) : n \in 1..MaxNumSeqs, t \in 0..MaxNumBatchedTokens }
    /\ pc = "profile_loop"
    /\ seq_group_metadata_list = <<>>
    /\ blocks_to_swap_in = <<>>
    /\ blocks_to_swap_out = <<>>
    /\ blocks_to_copy = <<>>
    /\ overlap_blocks_swap_in = <<>>
    /\ overlap_blocks_swap_out = <<>>
    /\ issued_cache_op = FALSE
    /\ cache_events = None
    /\ input_metadata = NotCalled
    /\ calls = <<>>
    /\ result = NotCalled

\* one iteration of "for group_id in range(max_num_seqs)"
ProfileAppendSeq ==
    /\ pc = "profile_loop"
    /\ Len(seq_group_metadata_list) < scheduler_config.max_num_seqs
    /\ LET group_id == Len(seq_group_metadata_list)
           seq_len == ProfileSeqLen(group_id, scheduler_config.max_num_batched_tokens,
                                    scheduler_config.max_num_seqs)
       IN  seq_group_metadata_list' =
               Append(seq_group_metadata_list, ProfileGroup(group_id, seq_len))
    /\ UNCHANGED <<scheduler_config, pc, blocks_to_swap_in, blocks_to_swap_out,
                   blocks_to_copy, overlap_blocks_swap_in, overlap_blocks_swap_out,
                   issued_cache_op, cache_events, input_metadata, calls, result>>

\* the loop is over: the synthetic groups are assembled into a batch
ProfilePrepareInputs ==
    /\ pc = "profile_loop"
    /\ Len(seq_group_metadata_list) = scheduler_config.max_num_seqs
    /\ input_metadata' = _prepare_inputs(seq_group_metadata_list)
    /\ IF input_metadata'.kind = "raise"
       THEN result' = input_metadata' /\ pc' = "raised"
       ELSE result' = result /\ pc' = "profile_model"
    /\ UNCHANGED <<scheduler_config, seq_group_metadata_list, blocks_to_swap_in,
                   blocks_to_swap_out, blocks_to_copy, overlap_blocks_swap_in,
                   overlap_blocks_swap_out, issued_cache_op, cache_events, calls>>

\* one forward pass on placeholder caches, with no cache events and no swap
\* sets, then the block counts are returned
ProfileModelCall ==
    /\ pc = "profile_model"
    /\ calls' = Append(calls, Call("model", <<>>, <<>>, None))
    /\ result' = [kind |-> "return", value |-> "num_blocks"]
    /\ pc' = "profile_done"
    /\ UNCHANGED <<scheduler_config, seq_group_metadata_list, blocks_to_swap_in,
                   blocks_to_swap_out, blocks_to_copy, overlap_blocks_swap_in,
                   overlap_blocks_swap_out, issued_cache_op, cache_events,
                   input_metadata>>

NextProfile ==
    \/ ProfileAppendSeq
    \/ ProfilePrepareInputs
    \/ ProfileModelCall

SpecProfile == InitProfile /\ [][NextProfile]_vars

\* ------------------------------------------------------------------ what a step asks for
RECURSIVE Flat(_)
Flat(ss) == IF ss = <<>> THEN <<>> ELSE Head(ss) \o Flat(Tail(ss))

Computes(g) == ~g.only_swap

\* tokens already in the cache for a sequence
Seen(sdata) == Len(sdata.tokens) - sdata.inflight_length

\* the in-flight tokens of a prompt-phase group, one entry per token: the
\* prompt is that of the group's first sequence
PrefillEntries(g) ==
    IF ~(Computes(g) /\ g.is_prompt) THEN <<>>
    ELSE LET s == g.seq_ids[1]
             d == g.seq_data[s]
         IN  [i \in 1..d.running_inflight_tokens |->
                 [phase |-> "prefill",
                  seq_id |-> s,
                  table |-> IF IsNone(g.block_tables) THEN Absent
                            ELSE Some(Get(g.block_tables)[s]),
                  pos |-> i - 1,
                  token |-> d.tokens[i]]]

\* the in-flight tokens of one decode-phase sequence
DecodeSeqEntries(g, s) ==
    LET d == g.seq_data[s]
    IN  [i \in 1..d.running_inflight_tokens |->
            [phase |-> "decode",
             seq_id |-> s,
             table |-> IF IsNone(g.block_tables) THEN Absent
                       ELSE Some(Get(g.block_tables)[s]),
             pos |-> Seen(d) + i - 1,
             token |-> d.tokens[Seen(d) + i]]]

DecodeEntries(g) ==
    IF ~(Computes(g) /\ ~g.is_prompt) THEN <<>>
    ELSE Flat([j \in 1..Len(g.seq_ids) |-> DecodeSeqEntries(g, g.seq_ids[j])])

\* every in-flight token of the step: prefill groups first, then decode sequences
StepEntries(list) ==
    Flat([k \in 1..Len(list) |-> PrefillEntries(list[k])])
    \o Flat([k \in 1..Len(list) |-> DecodeEntries(list[k])])

\* the decode sequences of the step, in list order
DecodeSeqsOf(list) ==
    Flat([k \in 1..Len(list) |->
            IF Computes(list[k]) /\ ~list[k].is_prompt
            THEN [j \in 1..Len(list[k].seq_ids) |->
                    [sdata |-> list[k].seq_data[list[k].seq_ids[j]],
                     table |-> Get(list[k].block_tables)[list[k].seq_ids[j]]]]
            ELSE <<>>])

Prepared == pc = "prepared"
Batch == input_metadata.kind = "batch"
Entries == StepEntries(seq_group_metadata_list)

\* ------------------------------------------------------------------ claims
\* the device blocks the step's batch reads or writes: the blocks of its slots
\* and the blocks of its decode sequences' block tables
ReferencedBlocks ==
    { input_metadata.slot_mapping[k] \div block_size :
        k \in 1..Len(input_metadata.slot_mapping) }
    \cup UNION { SeqToSet(DecodeSeqsOf(seq_group_metadata_list)[i].table) :
                   i \in 1..Len(DecodeSeqsOf(seq_group_metadata_list)) }

\* the device blocks a swap names: the destinations of a swap-in (host ->
\* device) and the sources of a swap-out (device -> host)
SwapInBlocks(m) == { m[k] : k \in DOMAIN m }
SwapOutBlocks(m) == DOMAIN m

NoInputCalls ==
    (IF blocks_to_swap_out # <<>>
     THEN <<Call("swap_out", <<>>, blocks_to_swap_out, None)>> ELSE <<>>)
    \o (IF blocks_to_swap_in # <<>>
        THEN <<Call("swap_in", blocks_to_swap_in, <<>>, None)>> ELSE <<>>)
    \o (IF blocks_to_swap_out # <<>> \/ blocks_to_swap_in # <<>>
        THEN <<Call("wait", <<>>, <<>>, "events")>> ELSE <<>>)

IsPrefix(a, b) == Len(a) <= Len(b) /\ a = SubSeq(b, 1, Len(a))

\* C2: a step whose batch is empty issues its swap-out, then its swap-in (each
\* only if non-empty), then waits on the cache events (only if one was
\* issued), never invokes the model, and returns the empty result.
C2_NoInputStep ==
    input_metadata.kind = "empty" =>
        /\ IsPrefix(calls, NoInputCalls)
        /\ pc = "returned" => (calls = NoInputCalls /\ result.value = "{}")
        /\ pc \in {"no_input_swap_out", "no_input_swap_in", "no_input_wait",
                   "no_input_return", "returned"}

\* a returned step without input that swapped both ways and waited
C2_Witness ==
    /\ pc = "returned"
    /\ input_metadata.kind = "empty"
    /\ seq_group_metadata_list # <<>>
    /\ Len(calls) = 3
    /\ calls[1].op = "swap_out" /\ calls[2].op = "swap_in" /\ calls[3].op = "wait"

\* C3: a step with a non-empty copy set raises "copy not supported yet"; it
\* calls nothing on the cache engine or the model and assembles no batch.
C3_CopyRejected ==
    blocks_to_copy # <<>> =>
        /\ calls = <<>>
        /\ input_metadata = NotCalled
        /\ pc \in {"cache_ops", "raised"}
        /\ pc = "raised" => result = Raised("ValueError: copy not supported yet")

\* a rejected step that also had requests to compute and blocks to swap
C3_Witness ==
    /\ pc = "raised"
    /\ blocks_to_copy # <<>>
    /\ blocks_to_swap_in # <<>>
    /\ blocks_to_swap_out # <<>>
    /\ StepEntries(seq_group_metadata_list) # <<>>
    /\ result.kind = "raise"

\* C4: every token addressed through a block table gets the slot
\* block_table[position // block_size] * block_size + position % block_size,
\* at block boundaries too.
C4_SlotFormula ==
    (Prepared /\ Batch) =>
        LET es == Entries
        IN  /\ Len(input_metadata.slot_mapping) = Len(es)
            /\ \A k \in 1..Len(es) :
                 ~IsNone(es[k].table) =>
                    LET t == Get(es[k].table)
                        p == es[k].pos
                    IN  input_metadata.slot_mapping[k] =
                            t[(p \div block_size) + 1] * block_size + (p % block_size)

\* a batch that addresses a prefill token at position block_size and a decode
\* token at position block_size - 1 (both sides of a block boundary)
C4_Witness ==
    /\ Prepared /\ Batch
    /\ \E k \in 1..Len(Entries) :
         /\ Entries[k].phase = "prefill" /\ ~IsNone(Entries[k].table)
         /\ Entries[k].pos = block_size
    /\ \E k \in 1..Len(Entries) :
         /\ Entries[k].phase = "decode" /\ Entries[k].pos = block_size - 1
    /\ \E k \in 1..Len(Entries) :
         /\ Entries[k].phase = "decode" /\ Entries[k].pos = 2 * block_size

\* an in-flight position the assembler addresses lies past its block table
AddressingFault ==
    LET es == Entries
    IN  \E k \in 1..Len(es) :
            /\ ~IsNone(es[k].table)
            /\ (es[k].pos \div block_size) >= Len(Get(es[k].table))

\* C5: when an addressed in-flight position has its logical block index at or
\* past the length of its block table, assembly raises (IndexError) and returns
\* no batch.
C5_AddressingFaultRaises ==
    (Prepared /\ AddressingFault) =>
        /\ input_metadata.kind = "raise"
        /\ input_metadata.err = "IndexError"

\* scenario A: a prompt one token longer than its single-block table covers
C5_Witness ==
    /\ Prepared
    /\ Len(seq_group_metadata_list) = 1
    /\ LET g == seq_group_metadata_list[1]
       IN  /\ g.is_prompt /\ Computes(g) /\ ~IsNone(g.block_tables)
           /\ Len(g.seq_ids) = 1
           /\ g.seq_data[g.seq_ids[1]].running_inflight_tokens = block_size + 1
           /\ Len(Get(g.block_tables)[g.seq_ids[1]]) = 1
    /\ input_metadata.kind = "raise"

\* C6: the token and position arrays of a batch have the same length, a
\* multiple of 8; the token array starts with the prefill groups' in-flight
\* prompt tokens (list order), then the decode sequences' in-flight tokens
\* (list order), and holds only zero filler after them.
C6_TokensPaddedConcat ==
    (Prepared /\ Batch) =>
        LET es == Entries
            toks == input_metadata.input_tokens
        IN  /\ Len(toks) = Len(input_metadata.input_positions)
            /\ Len(toks) % 8 = 0
            /\ Len(toks) >= Len(es)
            /\ \A k \in 1..Len(es) : toks[k] = es[k].token
            /\ \A k \in (Len(es) + 1)..Len(toks) : toks[k] = 0

\* a decode group listed before a prefill group, more than 8 tokens in all
C6_Witness ==
    /\ Prepared /\ Batch
    /\ Len(seq_group_metadata_list) = 2
    /\ ~seq_group_metadata_list[1].is_prompt
    /\ seq_group_metadata_list[2].is_prompt
    /\ Len(Entries) > 8
    /\ Len(Entries) < Len(input_metadata.input_tokens)

ComputingGroups(list) == SelectSeq(list, Computes)

\* C7: an empty list, or one of swap-only groups alone, yields the empty batch;
\* swap-only groups contribute nothing: the outcome is that of the list without
\* them.
C7_SwapOnlySkipped ==
    Prepared =>
        /\ ComputingGroups(seq_group_metadata_list) = <<>> => input_metadata = NoBatch
        /\ input_metadata = _prepare_inputs(ComputingGroups(seq_group_metadata_list))

\* a batch from a list that also holds a swap-only group of the same sequence id
C7_Witness ==
    /\ Prepared /\ Batch
    /\ Len(seq_group_metadata_list) = 2
    /\ seq_group_metadata_list[1].only_swap
    /\ seq_group_metadata_list[1].seq_ids = seq_group_metadata_list[2].seq_ids
    /\ Len(Get(seq_group_metadata_list[1].block_tables)[
              seq_group_metadata_list[1].seq_ids[1]]) = 0

\* the same sequence id in two different groups that compute
DuplicatedId ==
    \E i, j \in 1..Len(seq_group_metadata_list) :
        /\ i # j
        /\ Computes(seq_group_metadata_list[i])
        /\ Computes(seq_group_metadata_list[j])
        /\ \E a \in 1..Len(seq_group_metadata_list[i].seq_ids) :
           \E b \in 1..Len(seq_group_metadata_list[j].seq_ids) :
              seq_group_metadata_list[i].seq_ids[a] = seq_group_metadata_list[j].seq_ids[b]

\* C8: a sequence id in two different non-swap-only groups makes assembly
\* raise, never return a batch, empty or not.
C8_DuplicateRaises ==
    (Prepared /\ DuplicatedId) => input_metadata.kind = "raise"

\* C9: a non-swap-only prompt-phase group of more than one sequence is
\* rejected with a raise, never assembled from its first sequence alone.
C9_MultiSeqPrefillRejected ==
    (Prepared /\ \E k \in 1..Len(seq_group_metadata_list) :
                    /\ Computes(seq_group_metadata_list[k])
                    /\ seq_group_metadata_list[k].is_prompt
                    /\ Len(seq_group_metadata_list[k].seq_ids) > 1)
        => input_metadata.kind = "raise"

RECURSIVE MaxOf(_)
MaxOf(xs) == IF xs = <<>> THEN 0 ELSE Max(Head(xs), MaxOf(Tail(xs)))

\* C10: with at least one decode sequence, the batch has one context length
\* (seen + in-flight) and one block table per decode sequence in list order,
\* max_context_len is the largest context length, and every block table is
\* zero-padded on the right to the longest decode block table.
C10_DecodeMetadata ==
    (Prepared /\ Batch /\ DecodeSeqsOf(seq_group_metadata_list) # <<>>) =>
        LET ds == DecodeSeqsOf(seq_group_metadata_list)
            ctx == [i \in 1..Len(ds) |->
                      Seen(ds[i].sdata) + ds[i].sdata.running_inflight_tokens]
            longest == MaxOf([i \in 1..Len(ds) |-> Len(ds[i].table)])
            bts == input_metadata.block_tables
        IN  /\ input_metadata.context_lens = ctx
            /\ input_metadata.max_context_len = MaxOf(ctx)
            /\ Len(bts) = Len(ds)
            /\ \A i \in 1..Len(ds) :
                 /\ Len(bts[i]) = longest
                 /\ SubSeq(bts[i], 1, Len(ds[i].table)) = ds[i].table
                 /\ \A j \in (Len(ds[i].table) + 1)..longest : bts[i][j] = 0

\* scenario B: two decode sequences, 3 and 1 tokens in flight, the first with
\* the longer context and the longer block table
C10_Witness ==
    /\ Prepared /\ Batch
    /\ LET ds == DecodeSeqsOf(seq_group_metadata_list)
       IN  /\ Len(ds) = 2
           /\ ds[1].sdata.running_inflight_tokens = 3
           /\ ds[2].sdata.running_inflight_tokens = 1
           /\ Seen(ds[1].sdata) + 3 > Seen(ds[2].sdata) + 1
           /\ Len(ds[1].table) > Len(ds[2].table)

\* the prompt lengths of the synthetic sequences, by sequence index
ProfileLens ==
    [i \in 1..Len(seq_group_metadata_list) |->
        Len(seq_group_metadata_list[i].seq_data[seq_group_metadata_list[i].seq_ids[1]].tokens)]

RECURSIVE SumOf(_)
SumOf(xs) == IF xs = <<>> THEN 0 ELSE Head(xs) + SumOf(Tail(xs))

ProfileBuilt == pc \in {"profile_model", "profile_done"}

\* C11: profiling builds exactly max_num_seqs synthetic prompt sequences whose
\* lengths sum to max_num_batched_tokens, never increase with the sequence
\* index, differ pairwise by at most one token, and the first
\* max_num_batched_tokens mod max_num_seqs of them hold the extra token.
C11_ProfileLengths ==
    ProfileBuilt =>
        LET lens == ProfileLens
            n == scheduler_config.max_num_seqs
            t == scheduler_config.max_num_batched_tokens
        IN  /\ Len(lens) = n
            /\ SumOf(lens) = t
            /\ \A i, j \in 1..n : i < j => lens[i] >= lens[j]
            /\ \A i, j \in 1..n : lens[i] - lens[j] <= 1
            /\ \A i \in 1..n : (lens[i] > lens[n]) <=> (i <= t % n)
            /\ \A i \in 1..n :
                 /\ seq_group_metadata_list[i].is_prompt
                 /\ IsNone(seq_group_metadata_list[i].block_tables)
                 /\ seq_group_metadata_list[i].seq_ids = <<i - 1>>

\* scenario C: 4 sequences and 10 tokens give the lengths 3, 3, 2, 2
C11_Witness ==
    /\ pc = "profile_done"
    /\ scheduler_config = SchedulerConfig(4, 10)
    /\ ProfileLens = <<3, 3, 2, 2>>

\* C12: the slot mapping of a batch holds one slot per unpadded input token,
\* in token order: its length is the number of tokens the prompt lengths and
\* the running query lengths announce, the k-th slot belongs to the k-th
\* token's position, and every token of a prompt group assembled without
\* block tables has the placeholder slot 0.
C12_SlotPerToken ==
    (Prepared /\ Batch) =>
        LET es == Entries
            sm == input_metadata.slot_mapping
            toks == input_metadata.input_tokens
            poss == input_metadata.input_positions
            n == SumOf(input_metadata.prompt_lens)
                 + SumOf(input_metadata.running_query_lens)
        IN  /\ Len(sm) = n
            /\ Len(es) = n
            /\ Len(toks) >= n /\ Len(toks) - n < MultipleOf
            /\ \A k \in 1..n :
                 /\ toks[k] = es[k].token
                 /\ poss[k] = es[k].pos
                 /\ sm[k] >= 0
                 /\ IF IsNone(es[k].table)
                    THEN es[k].phase = "prefill" /\ sm[k] = 0
                    ELSE /\ sm[k] % block_size = poss[k] % block_size
                         /\ sm[k] \div block_size =
                              Get(es[k].table)[(poss[k] \div block_size) + 1]

\* a batch of a prompt group without block tables, some tokens long, followed
\* by a decode sequence whose first slot is not the placeholder, with filler
\* after the last token
C12_Witness ==
    /\ Prepared /\ Batch
    /\ Len(Entries) >= 3
    /\ IsNone(Entries[1].table) /\ IsNone(Entries[2].table)
    /\ Entries[Len(Entries)].phase = "decode"
    /\ input_metadata.slot_mapping[Len(Entries)] # 0
    /\ Len(input_metadata.slot_mapping) < Len(input_metadata.input_tokens)

\* the one call of a step with input: the model, with the step's swap sets as
\* the overlapped sets and no cache events
OverlappedModelCall == Call("model", blocks_to_swap_in, blocks_to_swap_out, None)

\* C13: in a step with a non-empty batch and an empty copy set the worker
\* calls neither swap_in nor swap_out on the cache engine and waits on no
\* event; it invokes the model exactly once, with the step's whole swap-in
\* and swap-out sets as the overlapped sets and no cache events, and returns
\* the model's output.
C13_SwapsLeftToModel ==
    (Batch /\ blocks_to_copy = <<>>) =>
        /\ ~issued_cache_op
        /\ \A i \in 1..Len(calls) : calls[i].op \notin {"swap_in", "swap_out", "wait"}
        /\ IsPrefix(calls, <<OverlappedModelCall>>)
        /\ pc \in {"execute", "returned"}
        /\ pc = "returned" =>
             /\ calls = <<OverlappedModelCall>>
             /\ result = [kind |-> "return", value |-> "output"]

\* a returned step with input that had blocks to swap both ways
C13_Witness ==
    /\ pc = "returned"
    /\ Batch
    /\ blocks_to_copy = <<>>
    /\ blocks_to_swap_in # <<>>
    /\ blocks_to_swap_out # <<>>
    /\ blocks_to_swap_in # blocks_to_swap_out
    /\ calls = <<OverlappedModelCall>>
    /\ result.value = "output"

====
